---- MODULE Spec2Model ----
(***************************************************************************)
(* background-maker: the deterministic frame renderer (src/src/aurora.js)  *)
(* and the video export coordinator with its worker wrapper                *)
(* (src/src/exporter.js).                                                  *)
(*                                                                         *)
(* JavaScript numbers are modelled as exact rationals <<num, den>>, and    *)
(* Math.sin / Math.cos of a rational number of turns as an exact symbolic  *)
(* value q + c*sin(2*pi*a) with a in (0, 1/4), so that two values are      *)
(* equal here exactly when they are equal as real numbers.                 *)
(***************************************************************************)
EXTENDS Integers, Sequences, FiniteSets, TLC

VARIABLES
    \* ---- pure calls of the motion model (aurora.js 76-116)
    motionArgs,     \* [type, t, slot, range] handed to getMotionOffset
    motionRes,      \* the offsets returned so far: at t, then at t + 1
    \* ---- pure calls of the drawing functions and the page around the renderer
    ctx,            \* a CanvasRenderingContext2D: persistent state and calls made
    drawArgs,       \* arguments of the drawShape / renderFrame call on ctx
    blobLog,        \* invocations of buildRandomBlobPoints so far: [i, points, ..]
    startTime,      \* renderer.startTime
    lastUpdate,     \* <<[before, partial, after]>> of the last updateSettings
                    \* call, <<>> before the first
    domLayers,      \* layer items buildLayerConfigs left in the panel (-1: none)
    edits,          \* input events the layer panel has handled
    \* ---- renderer (aurora.js 222-410)
    settings,       \* renderer.settings
    surface,        \* the explicit <<width, height>> handed to renderFrame
    frames,         \* what renderFrame drew, one entry per call: [time, frame]
    session,        \* renderer._export (NoSession when null/undefined)
    allocated,      \* the number of canvases made by document.createElement
    \* ---- export coordinator (exporter.js 24-136)
    isExporting,    \* module variable isExporting
    btnDisabled,    \* exportBtn.disabled
    pc,             \* the await startExport is suspended at ("idle": not running)
    fpsField,       \* value of the #fps field
    durationField,  \* value of the #duration field
    resolutionField,\* value of the #resolution field, as <<width, height>>
    exportSize,     \* const [exportWidth, exportHeight] of the running startExport
    fps,            \* const fps of the running startExport
    duration,       \* const duration of the running startExport
    totalFrames,    \* const totalFrames of the running startExport
    i,              \* loop variable of the frame loop / of the delete loop
    frameData,      \* content of outCanvas / blob / data of the current frame:
                    \* the number of the renderExportFrame call that drew it
    progressText,   \* progressText.textContent
    promise,        \* state of the promise the last startExport call returned
    outcome,        \* how the last startExport call ended
    \* ---- worker wrapper (exporter.js 229-280) and worker script (156-226)
    nextId,         \* nextId of the wrapper
    pending,        \* ids present in resolves / rejects
    progressCb,     \* whether progressCb is set
    toWorker,       \* requests posted to the worker, not yet handled
    fromWorker,     \* messages posted by the worker, not yet handled
    workerLoaded,   \* the worker's ffmpeg is set
    files,          \* paths present in the worker's FS
    liveWorkers,    \* workers created and not terminated
    faults,         \* operations that threw in the current worker
    \* ---- history of the current export
    rendered,       \* calls of renderExportFrame: [k, time, ses, settings, out]
    sentLog,        \* requests sent through send(): [id, type, path, data]
    acked,          \* frame indices whose writeFile was acknowledged
    execRet,        \* <<code>> once exec returned code, <<>> before
    failedFrame,    \* <<k>> once the submission of frame k failed, <<>> before
    downloads,      \* clicks on the download link
    settleLog,      \* promises of send() settled by worker.onmessage:
                    \* [id, how, data, msg]
    ignoredClicks,  \* startExport calls that returned at line 29
    exportsStarted  \* startExport calls that passed line 29

motionVars == <<motionArgs, motionRes>>
pageVars == <<ctx, drawArgs, blobLog, startTime, lastUpdate, domLayers, edits>>
renderVars == <<settings, surface, frames, session, allocated>>
coordVars == <<isExporting, btnDisabled, pc, fpsField, durationField, resolutionField,
               exportSize, fps, duration, totalFrames, i, frameData,
               progressText, promise, outcome>>
workerVars == <<nextId, pending, progressCb, toWorker, fromWorker,
                workerLoaded, files, liveWorkers, faults>>
histVars == <<rendered, sentLog, acked, execRet, failedFrame, downloads,
              settleLog, ignoredClicks, exportsStarted>>
vars == <<motionVars, pageVars, renderVars, coordVars, workerVars, histVars>>

(***************************************************************************)
(* Bounds of the model.                                                    *)
(***************************************************************************)
PhaseGrid == 20
MaxPhaseSteps == 30
MaxCycles == 3
MaxFps == 2
MaxDuration == 2
MaxExit == 2
MaxExports == 2
MaxIgnored == 1
MaxFaults == 1

(***************************************************************************)
(* Exact arithmetic on JavaScript numbers.                                 *)
(***************************************************************************)
Abs(n) == IF n < 0 THEN -n ELSE n

RECURSIVE GCD(_, _)
GCD(a, b) == IF b = 0 THEN a ELSE GCD(b, a % b)

Rat(n, d) ==
    LET g == GCD(Abs(n), Abs(d))
        s == IF d < 0 THEN -1 ELSE 1
    IN  <<(s * n) \div g, (s * d) \div g>>

Zero == Rat(0, 1)
One == Rat(1, 1)
RAdd(x, y) == Rat(x[1] * y[2] + y[1] * x[2], x[2] * y[2])
RSub(x, y) == Rat(x[1] * y[2] - y[1] * x[2], x[2] * y[2])
RMul(x, y) == Rat(x[1] * y[1], x[2] * y[2])
RDiv(x, y) == Rat(x[1] * y[2], x[2] * y[1])
RLess(x, y) == x[1] * y[2] < y[1] * x[2]
RMax(x, y) == IF RLess(x, y) THEN y ELSE x
RIsInt(x) == x[2] = 1

\* Math.trunc: towards zero.
RTrunc(x) == IF x[1] >= 0 THEN x[1] \div x[2] ELSE -((-x[1]) \div x[2])
\* Math.floor.
RFloor(x) == x[1] \div x[2]
\* The JavaScript remainder x % 1: it has the sign of the dividend x.
RemOne(x) == RSub(x, Rat(RTrunc(x), 1))
\* x - floor(x), the fraction of a turn that decides sin and cos.
Frac(x) == RSub(x, Rat(RFloor(x), 1))

\* A value q + c * sin(2*pi*a).
Val(q, c, a) == [q |-> q, c |-> c, a |-> IF c = Zero THEN Zero ELSE a]
VRat(r) == Val(r, Zero, Zero)
VMul(v, r) == Val(RMul(v.q, r), RMul(v.c, r), v.a)
VAdd(v, r) == Val(RAdd(v.q, r), v.c, v.a)

\* sin of a first-quadrant angle of a turns, 0 < a < 1/4, with the sign sg.
SinQuadrant(sg, a) ==
    IF a = Rat(1, 12) THEN VRat(Rat(sg, 2)) ELSE Val(Zero, Rat(sg, 1), a)

\* Math.sin(x * Math.PI * 2).
SinTurns(x) ==
    LET f == Frac(x)
    IN  CASE f = Zero \/ f = Rat(1, 2) -> VRat(Zero)
          [] f = Rat(1, 4) -> VRat(One)
          [] f = Rat(3, 4) -> VRat(Rat(-1, 1))
          [] RLess(f, Rat(1, 4)) -> SinQuadrant(1, f)
          [] RLess(Rat(1, 4), f) /\ RLess(f, Rat(1, 2)) ->
                SinQuadrant(1, RSub(Rat(1, 2), f))
          [] RLess(Rat(1, 2), f) /\ RLess(f, Rat(3, 4)) ->
                SinQuadrant(-1, RSub(f, Rat(1, 2)))
          [] OTHER -> SinQuadrant(-1, RSub(One, f))

\* Math.cos(x * Math.PI * 2).
CosTurns(x) == SinTurns(RAdd(x, Rat(1, 4)))

(***************************************************************************)
(* aurora.js: constants.                                                   *)
(***************************************************************************)
DEFAULT_LAYER_COLORS ==
    <<"#7c7cff", "#3b82f6", "#a855f7", "#22d3ee", "#f472b6", "#34d399">>

LAYER_ORBITS ==
    << [phaseX |-> Rat(0, 10), phaseY |-> Rat(3, 10), dirX |-> 1, dirY |-> 1],
       [phaseX |-> Rat(5, 10), phaseY |-> Rat(8, 10), dirX |-> -1, dirY |-> 1],
       [phaseX |-> Rat(2, 10), phaseY |-> Rat(6, 10), dirX |-> 1, dirY |-> -1],
       [phaseX |-> Rat(7, 10), phaseY |-> Rat(1, 10), dirX |-> -1, dirY |-> -1],
       [phaseX |-> Rat(4, 10), phaseY |-> Rat(9, 10), dirX |-> 1, dirY |-> -1],
       [phaseX |-> Rat(9, 10), phaseY |-> Rat(4, 10), dirX |-> -1, dirY |-> 1] >>

(***************************************************************************)
(* aurora.js: the seeded generator and the blob outlines (lines 30-56).    *)
(***************************************************************************)
RngMul == 16807
RngMod == 2147483647
SeedMul == 7919
SeedAdd == 1301
BlobSlots == 6

\* A generator whose state collapses to 0.
rngNextStuck(s) == 0

\* s = (s * 16807 + 0) % 2147483647.  The product is exact in a JavaScript
\* number; here it is taken in two parts (Schrage) to stay within 32 bits:
\* with q = RngMod div RngMul and r = RngMod % RngMul,
\* s * RngMul = RngMul * (s % q) - r * (s div q)  (mod RngMod).
rngNext(s) ==
    LET q == RngMod \div RngMul
        r == RngMod % RngMul
        v == RngMul * (s % q) - r * (s \div q)
    IN  IF v >= 0 THEN v ELSE v + RngMod

\* One generator shared by all invocations: it goes on from the state the
\* previous invocation left.
seededRandomShared(seed) ==
    IF blobLog = <<>> THEN seed
    ELSE LET last == blobLog[Len(blobLog)].states
         IN  last[Len(last)]

\* seededRandom(seed): the state s of the new closure.
seededRandom(seed) == seed

\* Math.floor(d * 4) for the draw d = n / m, m = RngMod - 1 and 0 <= n < m:
\* the number of k in 1..3 with 4 * n >= k * m, that is with
\* n >= ceil(k * m / 4) = k * (m div 4) + ceil(k * (m % 4) / 4).
FloorTimes4(n) ==
    LET m == RngMod - 1
    IN  Cardinality({k \in 1..3 :
                        n >= k * (m \div 4) + (k * (m % 4) + 3) \div 4})

\* The generator states s1, s2, .. that len calls of rng() visit from s.
RECURSIVE rngStates(_, _)
rngStates(s, len) ==
    IF len = 0 THEN <<>> ELSE <<rngNext(s)>> \o rngStates(rngNext(s), len - 1)

\* buildRandomBlobPoints(layerIndex).  A draw (s - 1) / 2147483646 is kept as
\* its numerator s - 1; a point is its angle j / pointCount, in turns, and the
\* numerator n of the draw its radius 0.6 + 0.4 * n / 2147483646 is made of.
buildRandomBlobPoints(layerIndex) ==
    LET s0 == seededRandom(layerIndex * SeedMul + SeedAdd)
        s1 == rngNext(s0)
        pointCount == 5 + FloorTimes4(s1 - 1)
        rest == rngStates(s1, pointCount)
    IN  [pointCount |-> pointCount,
         points |-> [j \in 1..pointCount |->
                        [angle |-> Rat(j - 1, pointCount), radius |-> rest[j] - 1]],
         states |-> <<s1>> \o rest]

\* const BLOB_POINTS = Array.from({ length: 6 }, (_, i) => ...).
BLOB_POINTS == [n \in 1..BlobSlots |-> buildRandomBlobPoints(n - 1).points]

SHAPE_TYPES == {"circle", "ellipse", "ring", "blob"}
MOTION_TYPES == {"lissajous", "orbit", "drift", "breathe", "wave"}
BLEND_MODES == {"screen", "multiply", "overlay", "soft-light"}

(***************************************************************************)
(* aurora.js: motion functions.                                            *)
(***************************************************************************)
motionLissajous(t, orbit, range) ==
    [offsetX |-> VMul(SinTurns(RAdd(t, orbit.phaseX)), Rat(orbit.dirX * range, 1)),
     offsetY |-> VMul(SinTurns(RAdd(t, orbit.phaseY)), Rat(orbit.dirY * range, 1))]

motionOrbit(t, orbit, range) ==
    LET angle == RAdd(t, orbit.phaseX)
    IN  [offsetX |-> VMul(CosTurns(angle), Rat(range * orbit.dirX, 1)),
         offsetY |-> VMul(SinTurns(angle), Rat(range * orbit.dirY, 1))]

motionDrift(t, orbit, range) ==
    LET drift == RSub(RMul(RemOne(RAdd(RMul(t, Rat(orbit.dirX, 1)), orbit.phaseX)),
                           Rat(range * 2, 1)),
                      Rat(range, 1))
        sway == VMul(SinTurns(RAdd(t, orbit.phaseY)), Rat(range * 2, 10))
    IN  [offsetX |-> VRat(drift), offsetY |-> sway]

motionBreathe(t, orbit, range) ==
    [offsetX |-> VRat(Zero), offsetY |-> VRat(Zero)]

motionWave(t, orbit, range) ==
    LET waveX == VMul(SinTurns(RAdd(t, orbit.phaseX)), Rat(range, 1))
        waveY == VMul(SinTurns(RAdd(RMul(t, Rat(2, 1)), orbit.phaseY)),
                      Rat(range * 25, 100))
    IN  [offsetX |-> VMul(waveX, Rat(orbit.dirX, 1)), offsetY |-> waveY]

getMotionOffset(type, t, orbit, range) ==
    CASE type = "orbit" -> motionOrbit(t, orbit, range)
      [] type = "drift" -> motionDrift(t, orbit, range)
      [] type = "breathe" -> motionBreathe(t, orbit, range)
      [] type = "wave" -> motionWave(t, orbit, range)
      [] OTHER -> motionLissajous(t, orbit, range)

(***************************************************************************)
(* The CanvasRenderingContext2D the drawing functions are handed: its      *)
(* persistent state (save stack, globalAlpha, transform, composite mode,   *)
(* fillStyle) and the calls made on it, each with the state it painted in. *)
(***************************************************************************)
NewContext ==
    [stack |-> <<>>, globalAlpha |-> One, transform |-> <<>>,
     composite |-> "source-over", fillStyle |-> [color |-> "#000000"],
     calls |-> <<>>]

Called(c, call) == [c EXCEPT !.calls = Append(@, call)]

Saved(c) ==
    [globalAlpha |-> c.globalAlpha, transform |-> c.transform,
     composite |-> c.composite, fillStyle |-> c.fillStyle]

\* c.save()
save(c) ==
    CHOOSE r \in {Called([v EXCEPT !.stack = Append(@, Saved(v))], [op |-> "save"]) :
                     v \in {c}} : TRUE

\* A restore that pops nothing.
restoreSkipped(c) == Called(c, [op |-> "restore"])

\* c.restore(): without a saved state it does nothing.
restore(c) ==
    CHOOSE r \in
        { IF v.stack = <<>> THEN Called(v, [op |-> "restore"])
          ELSE Called([v EXCEPT !.stack = SubSeq(@, 1, Len(@) - 1),
                                !.globalAlpha = v.stack[Len(v.stack)].globalAlpha,
                                !.transform = v.stack[Len(v.stack)].transform,
                                !.composite = v.stack[Len(v.stack)].composite,
                                !.fillStyle = v.stack[Len(v.stack)].fillStyle],
                      [op |-> "restore"]) : v \in {c} } : TRUE

\* c.globalAlpha = v
setGlobalAlpha(c, v) ==
    Called([c EXCEPT !.globalAlpha = v], [op |-> "globalAlpha", alpha |-> v])

\* c.globalCompositeOperation = mode
setComposite(c, mode) ==
    Called([c EXCEPT !.composite = mode],
           [op |-> "globalCompositeOperation", mode |-> mode])

\* c.fillStyle = style
setFillStyle(c, style) ==
    Called([c EXCEPT !.fillStyle = style], [op |-> "fillStyle", style |-> style])

\* c.translate(x, y) and c.scale(x, y)
translate(c, x, y) ==
    Called([c EXCEPT !.transform = Append(@, [by |-> "translate", x |-> x, y |-> y])],
           [op |-> "translate", x |-> x, y |-> y])
scaleBy(c, x, y) ==
    Called([c EXCEPT !.transform = Append(@, [by |-> "scale", x |-> x, y |-> y])],
           [op |-> "scale", x |-> x, y |-> y])

\* A call that paints: it is logged with the state it paints in.
Painted(c, call) ==
    CHOOSE r \in
        { Called(v, [op |-> "paint", what |-> call, globalAlpha |-> v.globalAlpha,
                     transform |-> v.transform, composite |-> v.composite,
                     fillStyle |-> v.fillStyle]) : v \in {c} } : TRUE

\* c.fillRect(cx - half, cy - half, half * 2, half * 2)
fillSquare(c, cx, cy, half) ==
    Painted(c, [fn |-> "fillRect", cx |-> cx, cy |-> cy, half |-> half])

\* c.fillRect(0, 0, w, h)
fillRect(c, w, h) == Painted(c, [fn |-> "fillRect", w |-> w, h |-> h])

\* c.createRadialGradient(x, y, r0, x, y, r1) with its color stops; a stop
\* is <<offset, color, suffix appended to the color>>.
RadialGradient(x, y, r0, r1, stops) ==
    [gradient |-> [x |-> x, y |-> y, r0 |-> r0, r1 |-> r1, stops |-> stops]]

VZero == VRat(Zero)

(***************************************************************************)
(* aurora.js: shape drawing and the renderer.                              *)
(***************************************************************************)
\* drawCircle(c, cx, cy, blobRadius, color, opacity)
drawCircle(c, cx, cy, blobRadius, color, opacity) ==
    LET c1 == setGlobalAlpha(save(c), opacity)
        grad == RadialGradient(cx, cy, VZero, blobRadius,
                    << <<Zero, color, "">>, <<Rat(55, 100), color, "40">>,
                       <<One, "transparent", "">> >>)
    IN  restore(fillSquare(setFillStyle(c1, grad), cx, cy, blobRadius))

\* drawEllipse(c, cx, cy, blobRadius, color, opacity, layerIndex)
drawEllipse(c, cx, cy, blobRadius, color, opacity, layerIndex) ==
    LET aspect == RAdd(Rat(1, 2), RMul(Rat(layerIndex % 3, 1), Rat(1, 4)))
        c1 == setGlobalAlpha(save(c), opacity)
        c2 == scaleBy(translate(c1, cx, cy), One, aspect)
        grad == RadialGradient(VZero, VZero, VZero, blobRadius,
                    << <<Zero, color, "">>, <<Rat(55, 100), color, "40">>,
                       <<One, "transparent", "">> >>)
    IN  restore(fillSquare(setFillStyle(c2, grad), VZero, VZero, blobRadius))

\* drawRing(c, cx, cy, blobRadius, color, opacity)
drawRing(c, cx, cy, blobRadius, color, opacity) ==
    LET c1 == setGlobalAlpha(save(c), opacity)
        innerR == VMul(blobRadius, Rat(35, 100))
        grad == RadialGradient(cx, cy, innerR, blobRadius,
                    << <<Zero, "transparent", "">>, <<Rat(2, 10), color, "60">>,
                       <<Rat(5, 10), color, "">>, <<Rat(75, 100), color, "40">>,
                       <<One, "transparent", "">> >>)
    IN  restore(fillSquare(setFillStyle(c1, grad), cx, cy, blobRadius))

\* drawBlob(c, cx, cy, blobRadius, color, opacity, layerIndex).  A vertex is
\* the point (cx + cos(angle) * radius * blobRadius, cy + sin(..) * ..), kept
\* as the index of its control point; a path call names the vertices it
\* is made from (the midpoint of two of them, or one of them).
drawBlob(c, cx, cy, blobRadius, color, opacity, layerIndex) ==
    LET points == BLOB_POINTS[(layerIndex % Len(BLOB_POINTS)) + 1]
        len == Len(points)
        at == [cx |-> cx, cy |-> cy, blobRadius |-> blobRadius]
        c1 == setGlobalAlpha(save(c), opacity)
        c2 == Called(c1, [op |-> "beginPath"])
        c3 == Called(c2, [op |-> "moveTo", at |-> at,
                          mid |-> <<points[len], points[1]>>])
        curves == [j \in 1..len |->
                      [op |-> "quadraticCurveTo", at |-> at, ctrl |-> points[j],
                       mid |-> <<points[j], points[(j % len) + 1]>>]]
        c4 == Called([c3 EXCEPT !.calls = @ \o curves], [op |-> "closePath"])
        grad == RadialGradient(cx, cy, VZero, blobRadius,
                    << <<Zero, color, "">>, <<Rat(6, 10), color, "50">>,
                       <<One, "transparent", "">> >>)
    IN  restore(Painted(setFillStyle(c4, grad), [fn |-> "fill"]))

\* A drawShape whose switch has no default branch.
drawShapeNoDefault(type, cx, cy, blobRadius, color, opacity, layerIndex) ==
    [fn |-> CASE type = "ellipse" -> "drawEllipse"
              [] type = "ring" -> "drawRing"
              [] type = "blob" -> "drawBlob"
              [] type = "circle" -> "drawCircle"
              [] OTHER -> "none",
     cx |-> cx, cy |-> cy, blobRadius |-> blobRadius, color |-> color,
     opacity |-> opacity,
     layerIndex |-> IF type \in {"ellipse", "blob"} THEN layerIndex ELSE -1]

\* The drawing function drawShape dispatches to, with its arguments.
drawShape(type, cx, cy, blobRadius, color, opacity, layerIndex) ==
    [fn |-> CASE type = "ellipse" -> "drawEllipse"
              [] type = "ring" -> "drawRing"
              [] type = "blob" -> "drawBlob"
              [] OTHER -> "drawCircle",
     cx |-> cx, cy |-> cy, blobRadius |-> blobRadius, color |-> color,
     opacity |-> opacity,
     layerIndex |-> IF type \in {"ellipse", "blob"} THEN layerIndex ELSE -1]

\* The call drawShape makes, carried out on the context c.
Paint(c, d) ==
    CASE d.fn = "drawEllipse" ->
             drawEllipse(c, d.cx, d.cy, d.blobRadius, d.color, d.opacity, d.layerIndex)
      [] d.fn = "drawRing" ->
             drawRing(c, d.cx, d.cy, d.blobRadius, d.color, d.opacity)
      [] d.fn = "drawBlob" ->
             drawBlob(c, d.cx, d.cy, d.blobRadius, d.color, d.opacity, d.layerIndex)
      [] d.fn = "drawCircle" ->
             drawCircle(c, d.cx, d.cy, d.blobRadius, d.color, d.opacity)
      [] OTHER -> c

\* this.settings as the constructor leaves it.
DefaultSettings ==
    [bgColor |-> "#050814",
     layerCount |-> 4,
     layerColors |-> DEFAULT_LAYER_COLORS,
     layerShapes |-> [n \in 1..6 |-> "circle"],
     layerMotions |-> [n \in 1..6 |-> "lissajous"],
     layerCycles |-> <<1, 2, 1, 3, 2, 1>>,
     layerMotionRanges |-> [n \in 1..6 |-> 250],
     layerOpacities |-> [n \in 1..6 |-> Rat(75, 100)],
     layerScaleRanges |-> [n \in 1..6 |-> Rat(14, 10)],
     blur |-> 160,
     blendMode |-> "screen",
     loopDuration |-> 10000]

\* An update that replaces the settings by the partial.
updateSettingsReplace(s, partial) == partial

\* Object.assign(this.settings, partial): partial is a record.
updateSettings(s, partial) ==
    [k \in DOMAIN s \cup DOMAIN partial |->
        IF k \in DOMAIN partial THEN partial[k] ELSE s[k]]

\* arr[idx] of a JavaScript array held as a sequence; absent entries give dflt.
At(arr, idx, dflt) == IF idx + 1 \in DOMAIN arr THEN arr[idx + 1] ELSE dflt

\* A phase that ignores settings.loopDuration and always divides by the
\* fallback of 10000 ms.
LayerPhaseFixedLoop(s, idx, time) ==
    RMul(RDiv(time, Rat(10000, 1)), Rat(At(s.layerCycles, idx, 1), 1))

\* A phase counted from the start of the preview and moved on by every
\* frame rendered before.
LayerPhaseSincePreview(s, idx, time) ==
    RMul(RDiv(RAdd(time, Rat(startTime + Len(frames), 1)),
              Rat(IF s.loopDuration = 0 THEN 10000 ELSE s.loopDuration, 1)),
         Rat(At(s.layerCycles, idx, 1), 1))

\* const t = (time / loopMs) * layerCycles, with loopMs = s.loopDuration || 10000.
LayerPhase(s, idx, time) ==
    LET layerCycles == At(s.layerCycles, idx, 1)
        loopMs == IF s.loopDuration = 0 THEN 10000 ELSE s.loopDuration
    IN  RMul(RDiv(time, Rat(loopMs, 1)), Rat(layerCycles, 1))

\* One iteration of the layer loop of renderFrame, for layer idx.
RenderLayer(s, idx, time, w, h) ==
    LET orbit == LAYER_ORBITS[(idx % Len(LAYER_ORBITS)) + 1]
        color == At(s.layerColors, idx,
                    DEFAULT_LAYER_COLORS[(idx % Len(DEFAULT_LAYER_COLORS)) + 1])
        layerShape == At(s.layerShapes, idx, "circle")
        layerMotion == At(s.layerMotions, idx, "lissajous")
        layerRange == At(s.layerMotionRanges, idx, 250)
        layerOpacity == At(s.layerOpacities, idx, Rat(75, 100))
        layerScale == At(s.layerScaleRanges, idx, Rat(14, 10))
        t == LayerPhase(s, idx, time)
        off == getMotionOffset(layerMotion, t, orbit, layerRange)
        breatheExtra == IF layerMotion = "breathe" THEN Rat(3, 10) ELSE Zero
        osc == VAdd(VMul(SinTurns(RAdd(t, RMul(orbit.phaseX, Rat(2, 1)))),
                         Rat(1, 2)),
                    Rat(1, 2))
        scale == VAdd(VMul(osc, RAdd(RSub(layerScale, One), breatheExtra)), One)
        baseCx == RMul(Rat(w, 1),
                       RAdd(Rat(2, 10),
                            RMul(Rat(6, 10), RemOne(Rat(idx * 618, 1000)))))
        baseCy == RMul(Rat(h, 1),
                       RAdd(Rat(2, 10),
                            RMul(Rat(6, 10),
                                 RemOne(RAdd(Rat(idx * 618, 1000), Rat(1, 2))))))
        cx == VAdd(off.offsetX, baseCx)
        cy == VAdd(off.offsetY, baseCy)
        blobRadius == VMul(scale, RMul(RMax(Rat(w, 1), Rat(h, 1)), Rat(1, 2)))
    IN  [t |-> t,
         draw |-> drawShape(layerShape, cx, cy, blobRadius, color, layerOpacity, idx)]

\* renderFrame(time, ctx, width, height) with explicit ctx and dimensions:
\* the background fill, the blend mode the layers are drawn with, the layers in
\* drawing order and the composite mode left on the context.
renderFrame(s, time, w, h) ==
    [bgColor |-> s.bgColor,
     blendMode |-> s.blendMode,
     layers |-> [n \in 1..s.layerCount |-> RenderLayer(s, n - 1, time, w, h)],
     composite |-> "source-over"]

\* The layer loop of renderFrame on the context c, from layer n on.
RECURSIVE PaintLayers(_, _, _)
PaintLayers(c, layers, n) ==
    IF n > Len(layers) THEN c
    ELSE PaintLayers(Paint(c, layers[n].draw), layers, n + 1)

\* renderFrame(time, ctx, width, height): the calls it makes on ctx.
renderFrameOn(c, s, time, w, h) ==
    CHOOSE r \in
        { LET c1 == setFillStyle(setComposite(c, "source-over"),
                                 [color |-> f.bgColor])
              c2 == setComposite(fillRect(c1, w, h), f.blendMode)
          IN  setComposite(PaintLayers(c2, f.layers, 1), f.composite) :
            f \in {renderFrame(s, time, w, h)} } : TRUE

NoSession == [exportWidth |-> 0]

\* Math.round.
Round(x) == RFloor(RAdd(x, Rat(1, 2)))

\* initExport(exportWidth, exportHeight); previewWidth is the width of the
\* preview canvas on screen (or 1920 when that is 0).
\* alloc canvases exist already: the two new ones are alloc + 1 and alloc + 2.
initExport(s, exportWidth, exportHeight, previewWidth, alloc) ==
    LET ratio == Rat(exportWidth, previewWidth)
        blurPx == Round(RMul(Rat(s.blur, 1), ratio))
        pad == blurPx * 2
    IN  [srcCanvas |-> [id |-> alloc + 1, width |-> exportWidth + pad * 2,
                        height |-> exportHeight + pad * 2],
         outCanvas |-> [id |-> alloc + 2, width |-> exportWidth,
                        height |-> exportHeight],
         blurPx |-> blurPx, pad |-> pad,
         exportWidth |-> exportWidth, exportHeight |-> exportHeight]

\* A renderExportFrame that makes its output canvas anew on every call.
renderExportFrameRealloc(s, ses, time, alloc) ==
    LET fresh == [ses.outCanvas EXCEPT !.id = alloc + 1]
    IN  [blurPx |-> ses.blurPx, pad |-> ses.pad,
         frame |-> renderFrame(s, time, ses.exportWidth, ses.exportHeight),
         canvas |-> fresh,
         session |-> [ses EXCEPT !.outCanvas = fresh],
         allocated |-> alloc + 1]

\* renderExportFrame(time): what ends up on outCanvas (frame under blurPx and
\* pad), the canvas returned, and this._export and the number of canvases
\* when it returns.
renderExportFrame(s, ses, time, alloc) ==
    [blurPx |-> ses.blurPx, pad |-> ses.pad,
     frame |-> renderFrame(s, time, ses.exportWidth, ses.exportHeight),
     canvas |-> ses.outCanvas,
     session |-> ses,
     allocated |-> alloc]

(***************************************************************************)
(* The state after the modules have loaded.                                *)
(***************************************************************************)
NoData == 0
FrameFile(k) == <<"frame.png", k>>
OutputFile == <<"output.mp4", 0>>
NoPath == <<"", 0>>

\* arr[idx] = v: the array grows to hold idx; indexes it skips stay absent.
PutAt(arr, idx, v) ==
    [n \in DOMAIN arr \cup {idx + 1} |-> IF n = idx + 1 THEN v ELSE arr[n]]

DEFAULT_COLORS ==
    <<"#7c7cff", "#3b82f6", "#a855f7", "#22d3ee", "#f472b6", "#34d399">>

\* key, def and max of the four per-layer sliders.
LAYER_SLIDERS ==
    << [key |-> "layerCycles", def |-> 1, max |-> 6],
       [key |-> "layerMotionRanges", def |-> 250, max |-> 600],
       [key |-> "layerOpacities", def |-> Rat(75, 100), max |-> Rat(1, 1)],
       [key |-> "layerScaleRanges", def |-> Rat(14, 10), max |-> Rat(2, 1)] >>

\* A panel build that fills nothing in.
buildLayerConfigsNoFill(s, count) == s

\* The body of the loop of buildLayerConfigs for layer idx (lines 689-700):
\* entries that are absent get their default, the others stay.
RECURSIVE FillSliders(_, _, _)
FillSliders(s, idx, n) ==
    IF n > Len(LAYER_SLIDERS) THEN s
    ELSE LET sl == LAYER_SLIDERS[n]
         IN  FillSliders([s EXCEPT ![sl.key] = PutAt(@, idx, At(@, idx, sl.def))],
                         idx, n + 1)

FillLayer(s, idx) ==
    FillSliders(
        [s EXCEPT
            !.layerColors =
                PutAt(@, idx, At(@, idx, DEFAULT_COLORS[(idx % Len(DEFAULT_COLORS)) + 1])),
            !.layerShapes = PutAt(@, idx, At(@, idx, "circle")),
            !.layerMotions = PutAt(@, idx, At(@, idx, "lissajous"))],
        idx, 1)

RECURSIVE FillLayers(_, _, _)
FillLayers(s, idx, count) ==
    IF idx < count THEN FillLayers(FillLayer(s, idx), idx + 1, count) ELSE s

\* buildLayerConfigs() with count = parseInt(layerCountInput.value): the
\* settings it leaves.
buildLayerConfigs(s, count) == FillLayers(s, 0, count)

\* syncLoopDuration(): the loop duration follows the #duration field.
syncLoopDuration(s, field) ==
    LET sec == IF field >= 1 THEN (IF field < 120 THEN field ELSE 120) ELSE 10
    IN  updateSettings(s, [loopDuration |-> sec * 1000])

InitMotionIdle ==
    /\ motionArgs = [type |-> "lissajous", t |-> Zero, slot |-> 0, range |-> 250]
    /\ motionRes = <<>>

InitPageIdle ==
    /\ ctx = <<>>
    /\ drawArgs = <<>>
    /\ blobLog = <<>>
    /\ startTime = 0
    /\ lastUpdate = <<>>
    /\ domLayers = -1
    /\ edits = 0

InitRendererIdle ==
    /\ surface = <<1920, 1080>>
    /\ frames = <<>>
    /\ session = NoSession
    /\ allocated = 0

InitCoordinator ==
    /\ isExporting = FALSE
    /\ btnDisabled = FALSE
    /\ pc = "idle"
    /\ exportSize = <<0, 0>>
    /\ fps = 0
    /\ duration = 0
    /\ totalFrames = 0
    /\ i = 0
    /\ frameData = NoData
    /\ progressText = <<"", 0>>
    /\ promise = "none"
    /\ outcome = "none"
    /\ nextId = 0
    /\ pending = {}
    /\ progressCb = FALSE
    /\ toWorker = <<>>
    /\ fromWorker = <<>>
    /\ workerLoaded = FALSE
    /\ files = {}
    /\ liveWorkers = 0
    /\ faults = 0
    /\ rendered = <<>>
    /\ sentLog = <<>>
    /\ acked = {}
    /\ execRet = <<>>
    /\ failedFrame = <<>>
    /\ downloads = 0
    /\ settleLog = <<>>
    /\ ignoredClicks = 0
    /\ exportsStarted = 0

InitFields ==
    /\ fpsField = 1
    /\ durationField = 10
    /\ resolutionField = <<1920, 1080>>

(***************************************************************************)
(* SpecMotion: getMotionOffset applied at a phase t and at t + 1.          *)
(***************************************************************************)
MotionRanges == {50, 250, 600}

InitMotion ==
    /\ motionArgs \in [type : MOTION_TYPES,
                       t : {Rat(n, PhaseGrid) : n \in 0..MaxPhaseSteps},
                       slot : 0..(Len(LAYER_ORBITS) - 1),
                       range : MotionRanges]
    /\ motionRes = <<>>
    /\ settings = DefaultSettings
    /\ InitRendererIdle
    /\ InitFields
    /\ InitCoordinator
    /\ InitPageIdle

CallMotion ==
    /\ Len(motionRes) = 0
    /\ motionRes' = <<getMotionOffset(motionArgs.type, motionArgs.t,
                                      LAYER_ORBITS[motionArgs.slot + 1],
                                      motionArgs.range)>>
    /\ UNCHANGED <<motionArgs, pageVars, renderVars, coordVars, workerVars,
                   histVars>>

CallMotionNext ==
    /\ Len(motionRes) = 1
    /\ motionRes' = Append(motionRes,
                           getMotionOffset(motionArgs.type,
                                           RAdd(motionArgs.t, One),
                                           LAYER_ORBITS[motionArgs.slot + 1],
                                           motionArgs.range))
    /\ UNCHANGED <<motionArgs, pageVars, renderVars, coordVars, workerVars,
                   histVars>>

NextMotion == CallMotion \/ CallMotionNext

SpecMotion == InitMotion /\ [][NextMotion]_vars

(***************************************************************************)
(* SpecBlob: buildRandomBlobPoints invoked for layer indices in any order.  *)
(***************************************************************************)
MaxBlobCalls == 3

InitBlob ==
    /\ settings = DefaultSettings
    /\ InitMotionIdle
    /\ InitRendererIdle
    /\ InitFields
    /\ InitCoordinator
    /\ InitPageIdle

CallBuildBlobPoints ==
    /\ Len(blobLog) < MaxBlobCalls
    /\ \E idx \in 0..(BlobSlots - 1) :
          LET out == buildRandomBlobPoints(idx)
          IN  blobLog' = Append(blobLog,
                            [i |-> idx, pointCount |-> out.pointCount,
                             points |-> out.points, states |-> out.states])
    /\ UNCHANGED <<motionVars, ctx, drawArgs, startTime, lastUpdate, domLayers, edits,
                   renderVars, coordVars, workerVars, histVars>>

NextBlob == CallBuildBlobPoints

SpecBlob == InitBlob /\ [][NextBlob]_vars

(***************************************************************************)
(* SpecDraw: one drawShape or renderFrame call on a context in some state, *)
(* and one getMotionOffset call, with kinds inside and outside the known   *)
(* ones.                                                                   *)
(***************************************************************************)
MaxLayerIndex == 5
MaxDrawLayers == 2

ShapeKinds == SHAPE_TYPES \cup {"unknown", ""}
MotionKinds == MOTION_TYPES \cup {"unknown", ""}

\* A fresh context; the context renderExportFrame hands over (saved, then
\* translated by the padding); and a context left with another alpha and
\* composite mode.
EntryContexts ==
    { NewContext,
      [translate(save(NewContext), 320, 320) EXCEPT !.calls = <<>>],
      [NewContext EXCEPT !.globalAlpha = Rat(1, 2), !.composite = "screen"] }

InitDraw ==
    /\ \E c \in EntryContexts :
          /\ ctx = c
          /\ drawArgs \in [type : ShapeKinds, layerIndex : 0..MaxLayerIndex,
                            layerCount : 0..MaxDrawLayers, cx : {VRat(Rat(400, 1))},
                            cy : {VRat(Rat(300, 1))},
                            blobRadius : {VRat(Rat(540, 1))},
                            color : {"#7c7cff"}, opacity : {Rat(75, 100)},
                            call : {"none"}, entry : {c}]
    /\ settings = updateSettings(DefaultSettings,
                      [layerCount |-> drawArgs.layerCount,
                       layerShapes |-> [k \in 1..6 |-> drawArgs.type]])
    /\ motionArgs \in [type : MotionKinds, t : {Rat(3, PhaseGrid)}, slot : 0..1,
                        range : {250}]
    /\ motionRes = <<>>
    /\ blobLog = <<>>
    /\ startTime = 0
    /\ lastUpdate = <<>>
    /\ domLayers = -1
    /\ edits = 0
    /\ InitRendererIdle
    /\ InitFields
    /\ InitCoordinator

CallDrawShape ==
    /\ drawArgs.call = "none"
    /\ ctx' = Paint(ctx, drawShape(drawArgs.type, drawArgs.cx, drawArgs.cy,
                                   drawArgs.blobRadius, drawArgs.color,
                                   drawArgs.opacity, drawArgs.layerIndex))
    /\ drawArgs' = [drawArgs EXCEPT !.call = "drawShape"]
    /\ UNCHANGED <<motionVars, blobLog, startTime, lastUpdate, domLayers, edits,
                   renderVars, coordVars, workerVars, histVars>>

CallRenderFrame ==
    /\ drawArgs.call = "none"
    /\ ctx' = renderFrameOn(ctx, settings, Zero, surface[1], surface[2])
    /\ drawArgs' = [drawArgs EXCEPT !.call = "renderFrame"]
    /\ UNCHANGED <<motionVars, blobLog, startTime, lastUpdate, domLayers, edits,
                   renderVars, coordVars, workerVars, histVars>>

NextDraw == CallDrawShape \/ CallRenderFrame \/ CallMotion

SpecDraw == InitDraw /\ [][NextDraw]_vars

(***************************************************************************)
(* SpecSettings: updateSettings called with partials of one key, of        *)
(* several keys, of an array and of a key the settings do not have yet.    *)
(***************************************************************************)
SettingsPartials ==
    { [bgColor |-> "#ffffff"],
      [layerCount |-> 2, blendMode |-> "multiply"],
      [layerCount |-> 4],
      [layerCycles |-> <<2, 2, 2>>],
      [loopDuration |-> 5000],
      [speed |-> 2] }

InitSettings ==
    /\ settings = DefaultSettings
    /\ InitMotionIdle
    /\ InitRendererIdle
    /\ InitFields
    /\ InitCoordinator
    /\ InitPageIdle

\* renderer.updateSettings(p)
UpdateSettingsCall(p) ==
    /\ settings' = updateSettings(settings, p)
    /\ lastUpdate' = <<[before |-> settings, partial |-> p, after |-> settings']>>
    /\ UNCHANGED <<motionVars, ctx, drawArgs, blobLog, startTime, domLayers, edits,
                   surface, frames, session, allocated, coordVars, workerVars, histVars>>

NextSettings == \E p \in SettingsPartials : UpdateSettingsCall(p)

SpecSettings == InitSettings /\ [][NextSettings]_vars

(***************************************************************************)
(* SpecRender: renderFrame called by the preview loop and with explicit    *)
(* time and dimensions, between preview restarts and settings updates.     *)
(***************************************************************************)
MaxRenders == 2
MaxStart == 1

RenderTimes == {0, 500}
RenderSizes == {<<1920, 1080>>, <<1280, 720>>}
RenderPartials == {[layerCount |-> 1], [layerCount |-> 2]}

InitRender ==
    /\ settings = updateSettings(DefaultSettings,
                                 [layerCount |-> 2, loopDuration |-> 1000])
    /\ InitMotionIdle
    /\ InitRendererIdle
    /\ InitFields
    /\ InitCoordinator
    /\ InitPageIdle

\* What one renderFrame call was handed and what it drew.
Rendering(time, w, h) ==
    [time |-> time, settings |-> settings, w |-> w, h |-> h,
     frame |-> renderFrame(settings, Rat(time, 1), w, h)]

\* startPreview(): this.startTime = performance.now().
startPreview ==
    /\ \E now \in {100 * k : k \in 0..MaxStart} : startTime' = now
    /\ UNCHANGED <<motionVars, ctx, drawArgs, blobLog, lastUpdate, domLayers,
                   edits, renderVars, coordVars, workerVars, histVars>>

\* The loop callback of startPreview at the time now: renderFrame(time) on
\* the preview canvas, whose size is surface.
PreviewFrame ==
    /\ Len(frames) < MaxRenders
    /\ \E elapsed \in {0, 500, 1500} :
          LET now == startTime + elapsed
              loop_ms == settings.loopDuration
              time == IF loop_ms > 0 THEN (now - startTime) % loop_ms
                      ELSE now - startTime
          IN  frames' = Append(frames, Rendering(time, surface[1], surface[2]))
    /\ UNCHANGED <<motionVars, pageVars, settings, surface, session, allocated, coordVars,
                   workerVars, histVars>>

\* renderFrame(time, ctx, width, height) with explicit arguments.
ExplicitRender ==
    /\ Len(frames) < MaxRenders
    /\ \E time \in RenderTimes, size \in RenderSizes :
          frames' = Append(frames, Rendering(time, size[1], size[2]))
    /\ UNCHANGED <<motionVars, pageVars, settings, surface, session, allocated, coordVars,
                   workerVars, histVars>>

NextRender ==
    \/ startPreview
    \/ PreviewFrame
    \/ ExplicitRender
    \/ \E p \in RenderPartials : UpdateSettingsCall(p)

SpecRender == InitRender /\ [][NextRender]_vars

(***************************************************************************)
(* SpecPanel: the layer controls of the panel (layer count, per-layer       *)
(* sliders, color, shape and motion pickers), the preview rendering, and   *)
(* renderer.updateSettings called with shorter per-layer arrays.           *)
(***************************************************************************)
MaxEdits == 4
MaxLayers == 7

LayerCounts == {1, MaxLayers}
LayerKeys ==
    {"layerColors", "layerShapes", "layerMotions", "layerCycles",
     "layerMotionRanges", "layerOpacities", "layerScaleRanges"}
ArrayPartials ==
    { [layerColors |-> <<"#ffffff">>, layerShapes |-> <<>>,
       layerMotions |-> <<>>, layerCycles |-> <<2>>,
       layerMotionRanges |-> <<600>>, layerOpacities |-> <<>>,
       layerScaleRanges |-> <<>>] }

\* The layer an event of the panel is taken from: the last of the layer
\* items the panel shows.
EditIndexes == IF domLayers > 0 THEN {domLayers - 1} ELSE {}

InitPanel == InitSettings

\* line 854: buildLayerConfigs() when the module loads; the value of the
\* layer-count input comes from the page.
LoadPanel ==
    /\ domLayers = -1
    /\ \E count \in LayerCounts :
          /\ settings' = buildLayerConfigs(settings, count)
          /\ domLayers' = count
    /\ UNCHANGED <<motionVars, ctx, drawArgs, blobLog, startTime, lastUpdate, edits,
                   surface, frames, session, allocated, coordVars, workerVars, histVars>>

\* lines 818-823: the input event of the layer-count control.
LayerCountInput ==
    /\ domLayers # -1
    /\ edits < MaxEdits
    /\ edits' = edits + 1
    /\ \E count \in LayerCounts :
          /\ settings' = buildLayerConfigs(
                             updateSettings(settings, [layerCount |-> count]), count)
          /\ domLayers' = count
    /\ UNCHANGED <<motionVars, ctx, drawArgs, blobLog, startTime, lastUpdate,
                   surface, frames, session, allocated, coordVars, workerVars, histVars>>

\* renderer.settings[key][idx] = val
PanelEdit(key, idx, val) ==
    /\ domLayers # -1
    /\ edits < MaxEdits
    /\ edits' = edits + 1
    /\ settings' = [settings EXCEPT ![key] = PutAt(@, idx, val)]
    /\ UNCHANGED <<motionVars, ctx, drawArgs, blobLog, startTime, lastUpdate, domLayers,
                   surface, frames, session, allocated, coordVars, workerVars, histVars>>

\* lines 798-806: the input event of a per-layer slider.
SliderInput ==
    \E n \in DOMAIN LAYER_SLIDERS, idx \in EditIndexes :
        PanelEdit(LAYER_SLIDERS[n].key, idx, LAYER_SLIDERS[n].max)

\* lines 788-791: the input event of a color picker.
ColorInput == \E idx \in EditIndexes : PanelEdit("layerColors", idx, "#ffffff")

\* line 742: a shape is picked.
ShapePick == \E idx \in EditIndexes : PanelEdit("layerShapes", idx, "blob")

\* line 754: a motion is picked.
MotionPick == \E idx \in EditIndexes : PanelEdit("layerMotions", idx, "wave")

\* A frame of the preview, at the start of the loop.
PanelFrame ==
    /\ Len(frames) < MaxRenders
    /\ edits < MaxEdits
    /\ edits' = edits + 1
    /\ frames' = Append(frames, Rendering(0, surface[1], surface[2]))
    /\ UNCHANGED <<motionVars, ctx, drawArgs, blobLog, startTime, lastUpdate, domLayers,
                   settings, surface, session, allocated, coordVars, workerVars, histVars>>

\* renderer.updateSettings(p) with per-layer arrays shorter than layerCount.
ShortenArrays ==
    /\ edits < MaxEdits
    /\ edits' = edits + 1
    /\ \E p \in ArrayPartials :
          /\ settings' = updateSettings(settings, p)
          /\ lastUpdate' = <<[before |-> settings, partial |-> p,
                               after |-> settings']>>
    /\ UNCHANGED <<motionVars, ctx, drawArgs, blobLog, startTime, domLayers,
                   surface, frames, session, allocated, coordVars, workerVars, histVars>>

NextPanel ==
    \/ LoadPanel
    \/ LayerCountInput
    \/ SliderInput
    \/ ColorInput
    \/ ShapePick
    \/ MotionPick
    \/ PanelFrame
    \/ ShortenArrays

SpecPanel == InitPanel /\ [][NextPanel]_vars

(***************************************************************************)
(* SpecLoop: renderFrame at time 0 and at time loopDuration.  The settings *)
(* are the defaults with any layer count, and one layer slot given any     *)
(* motion kind, cycle count and range.                                     *)
(***************************************************************************)
SetAt(arr, idx, v) == [arr EXCEPT ![idx + 1] = v]

LoopSettings ==
    { updateSettings(DefaultSettings,
          [layerCount |-> n,
           layerMotions |-> SetAt(DefaultSettings.layerMotions, slot, kind),
           layerCycles |-> SetAt(DefaultSettings.layerCycles, slot, c),
           loopDuration |-> d * 1000]) :
        n \in 1..6, slot \in 0..5, kind \in MOTION_TYPES,
        c \in 1..MaxCycles, d \in 1..MaxDuration }

InitLoop ==
    /\ settings \in LoopSettings
    /\ surface \in {<<1920, 1080>>, <<1080, 1920>>}
    /\ frames = <<>>
    /\ session = NoSession
    /\ allocated = 0
    /\ InitMotionIdle
    /\ InitFields
    /\ InitCoordinator
    /\ InitPageIdle

RenderAtStart ==
    /\ Len(frames) = 0
    /\ frames' = <<[time |-> Zero,
                    frame |-> renderFrame(settings, Zero, surface[1], surface[2])]>>
    /\ UNCHANGED <<settings, surface, session, allocated, motionVars, pageVars, coordVars,
                   workerVars, histVars>>

RenderAtLoopEnd ==
    /\ Len(frames) = 1
    /\ frames' = Append(frames,
                    [time |-> Rat(settings.loopDuration, 1),
                     frame |-> renderFrame(settings, Rat(settings.loopDuration, 1),
                                           surface[1], surface[2])])
    /\ UNCHANGED <<settings, surface, session, allocated, motionVars, pageVars, coordVars,
                   workerVars, histVars>>

NextLoop == RenderAtStart \/ RenderAtLoopEnd

SpecLoop == InitLoop /\ [][NextLoop]_vars

(***************************************************************************)
(* exporter.js: the worker script (lines 156-226).                         *)
(***************************************************************************)
Note(type, data) == [id |-> -1, type |-> type, data |-> data]

\* What ffmpeg posts through setLogger / setProgress while exec runs.
NoteSeqs == {<<>>, <<Note("LOG", 0)>>, <<Note("PROGRESS", 50)>>}

\* self.onmessage for the request req.  ok: the operation does not throw;
\* ret: the value ffmpeg.ret holds after exec.  An ERROR reply carries the
\* error's text, written -1 here.
WorkerReply(req, ok, ret) ==
    LET fail == [id |-> req.id, type |-> "ERROR", data |-> -1]
        done(d) == [id |-> req.id, type |-> req.type, data |-> d]
    IN  IF req.type # "LOAD" /\ ~workerLoaded THEN fail
        ELSE CASE req.type = "LOAD" -> IF ok THEN done(1) ELSE fail
               [] req.type = "EXEC" -> IF ok THEN done(ret) ELSE fail
               [] req.type = "WRITE_FILE" -> IF ok THEN done(1) ELSE fail
               [] req.type = "READ_FILE" ->
                      IF ok /\ req.path \in files THEN done(1) ELSE fail
               [] req.type = "DELETE_FILE" ->
                      IF ok /\ req.path \in files THEN done(1) ELSE fail
               [] OTHER -> fail

WorkerHandle ==
    /\ toWorker # <<>>
    /\ \E ok \in BOOLEAN, ret \in 0..MaxExit, notes \in NoteSeqs :
          LET req == Head(toWorker)
              reply == WorkerReply(req, ok, ret)
              good == reply.type # "ERROR"
          IN  /\ req.type # "EXEC" => (notes = <<>> /\ ret = 0)
              /\ ~ok => faults < MaxFaults
              /\ faults' = IF ok THEN faults ELSE faults + 1
              /\ toWorker' = Tail(toWorker)
              /\ fromWorker' = fromWorker \o notes \o <<reply>>
              /\ workerLoaded' = (workerLoaded \/ (req.type = "LOAD" /\ good))
              /\ files' = CASE good /\ req.type = "WRITE_FILE" ->
                                   files \cup {req.path}
                            [] good /\ req.type = "DELETE_FILE" ->
                                   files \ {req.path}
                            [] good /\ req.type = "EXEC" /\ ret = 0 ->
                                   files \cup {OutputFile}
                            [] OTHER -> files
    /\ UNCHANGED <<motionVars, pageVars, renderVars, coordVars, histVars, nextId,
                   pending, progressCb, liveWorkers>>

(***************************************************************************)
(* exporter.js: the worker wrapper (lines 229-280).                        *)
(***************************************************************************)
Reply == Head(fromWorker)

\* worker.onmessage, lines 238-248: LOG and PROGRESS settle nothing.
IsNote(msg) == msg.type \in {"LOG", "PROGRESS"}

\* worker.onmessage, lines 249-254: an ERROR message rejects.
IsErrorAlwaysResolve(msg) == FALSE
IsError(msg) == msg.type = "ERROR"

\* A message that settles a promise send() returned.
IsReply == fromWorker # <<>> /\ ~IsNote(Reply) /\ Reply.id \in pending

\* worker.onmessage, lines 249-257, for the message at the head of the queue:
\* rejects[id] is called for an ERROR message, resolves[id] otherwise.
Settle ==
    settleLog' = Append(settleLog,
                        [id |-> Reply.id,
                         how |-> IF IsError(Reply) THEN "rejected" ELSE "resolved",
                         data |-> Reply.data,
                         msg |-> Reply])

\* A send that posts the request under the id of the request before.
sendReusesId(type, path, data, settled) ==
    LET msg == [id |-> nextId, type |-> type, path |-> path, data |-> data]
    IN  /\ nextId' = nextId
        /\ pending' = (pending \ settled) \cup {nextId}
        /\ toWorker' = Append(toWorker, msg)
        /\ sentLog' = Append(sentLog, msg)

\* send(type, data): a fresh id, both callbacks stored, the request posted.
\* settled: the ids whose entries the running message handler deletes.
send(type, path, data, settled) ==
    LET msg == [id |-> nextId, type |-> type, path |-> path, data |-> data]
    IN  /\ nextId' = nextId + 1
        /\ pending' = (pending \ settled) \cup {nextId}
        /\ toWorker' = Append(toWorker, msg)
        /\ sentLog' = Append(sentLog, msg)

(***************************************************************************)
(* exporter.js: startExport (lines 28-136).                                *)
(***************************************************************************)
WorkerError == <<"Export failed: worker error", 0>>
BlobError == <<"Export failed: TypeError", 0>>
PreviewWidths == {960, 1920}

\* line 29: if (isExporting) return.
ReentrantNever == FALSE
Reentrant == isExporting

\* line 65: const time = (i / fps) * 1000.
FrameTimeOffByOne(k, f) == RMul(RDiv(Rat(k + 1, 1), Rat(f, 1)), Rat(1000, 1))
FrameTime(k, f) == RMul(RDiv(Rat(k, 1), Rat(f, 1)), Rat(1000, 1))

\* line 64: i++.
NextIndexSkips(k) == k + 2
NextIndex(k) == k + 1

\* line 99: exitCode !== 0.
ExitFailedOnlyNegative(code) == code < 0
ExitFailed(code) == code # 0

\* A catch block that is not followed by the finally block.
ThrowSkipsFinally(text) ==
    /\ progressText' = text
    /\ UNCHANGED <<isExporting, btnDisabled>>
    /\ pc' = "idle"
    /\ promise' = "fulfilled"
    /\ outcome' = "failed"

\* lines 123-135: the catch and the finally block.
Throw(text) ==
    /\ progressText' = text
    /\ isExporting' = FALSE
    /\ btnDisabled' = FALSE
    /\ pc' = "idle"
    /\ promise' = "fulfilled"
    /\ outcome' = "failed"

\* A loop head that sends the exec request without cleanupExport.
LoopHeadKeepsSession(k, ses, alloc, settled) ==
    IF k < totalFrames
    THEN /\ i' = k
         /\ frameData' = Len(rendered) + 1
         /\ rendered' = Append(rendered,
                            [k |-> k, time |-> FrameTime(k, fps), ses |-> ses,
                             settings |-> settings,
                             out |-> renderExportFrame(settings, ses,
                                                       FrameTime(k, fps), alloc)])
         /\ pc' = "blob"
         /\ session' = ses
         /\ allocated' = alloc
         /\ pending' = pending \ settled
         /\ UNCHANGED <<nextId, toWorker, sentLog, progressCb>>
    ELSE /\ i' = k
         /\ session' = ses
         /\ allocated' = alloc
         /\ progressCb' = TRUE
         /\ send("EXEC", NoPath, NoData, settled)
         /\ pc' = "exec"
         /\ UNCHANGED <<frameData, rendered>>

\* lines 64-68: the loop test; then either the body up to canvasToBlob, or
\* lines 77-97: cleanupExport, onProgress and the exec request.
LoopHead(k, ses, alloc, settled) ==
    IF k < totalFrames
    THEN LET out == renderExportFrame(settings, ses, FrameTime(k, fps), alloc)
         IN  /\ i' = k
             /\ frameData' = Len(rendered) + 1
             /\ rendered' = Append(rendered,
                                [k |-> k, time |-> FrameTime(k, fps),
                                 ses |-> ses, settings |-> settings,
                                 out |-> out])
             /\ pc' = "blob"
             /\ session' = rendered'[Len(rendered')].out.session
             /\ allocated' = rendered'[Len(rendered')].out.allocated
             /\ pending' = pending \ settled
             /\ UNCHANGED <<nextId, toWorker, sentLog, progressCb>>
    ELSE /\ i' = k
         /\ session' = NoSession
         /\ allocated' = alloc
         /\ progressCb' = TRUE
         /\ send("EXEC", NoPath, NoData, settled)
         /\ pc' = "exec"
         /\ UNCHANGED <<frameData, rendered>>

\* lines 115-119: the next deleteFile request.
DeleteHead(k, settled) ==
    /\ i' = k
    /\ IF k < totalFrames
       THEN send("DELETE_FILE", FrameFile(k), NoData, settled) /\ pc' = "del"
       ELSE send("DELETE_FILE", OutputFile, NoData, settled) /\ pc' = "delout"

fixedVars == <<motionVars, pageVars, settings, surface, frames, fpsField,
               durationField, resolutionField>>

\* A click on the export button while no export runs: lines 29-54.
ClickStart ==
    /\ ~Reentrant
    /\ exportsStarted < MaxExports
    /\ isExporting' = TRUE
    /\ btnDisabled' = TRUE
    /\ exportSize' = resolutionField
    /\ duration' = durationField
    /\ fps' = fpsField
    /\ totalFrames' = fpsField * durationField
    /\ progressText' = <<"Loading FFmpeg...", 0>>
    /\ i' = 0
    /\ frameData' = NoData
    /\ promise' = "pending"
    /\ outcome' = "running"
    /\ pc' = "load"
    \* createFFmpegWorker() and ffmpeg.load()
    /\ liveWorkers' = liveWorkers + 1
    /\ workerLoaded' = FALSE
    /\ files' = {}
    /\ faults' = 0
    /\ progressCb' = FALSE
    /\ fromWorker' = <<>>
    /\ LET msg == [id |-> 0, type |-> "LOAD", path |-> NoPath, data |-> NoData]
       IN  /\ nextId' = 1
           /\ pending' = {0}
           /\ toWorker' = <<msg>>
           /\ sentLog' = <<msg>>
    /\ rendered' = <<>>
    /\ acked' = {}
    /\ execRet' = <<>>
    /\ failedFrame' = <<>>
    /\ downloads' = 0
    /\ settleLog' = <<>>
    /\ exportsStarted' = exportsStarted + 1
    /\ UNCHANGED <<fixedVars, session, allocated, ignoredClicks>>

\* A click on the export button while an export runs: line 29 returns.
ClickIgnored ==
    /\ Reentrant
    /\ ignoredClicks < MaxIgnored
    /\ ignoredClicks' = ignoredClicks + 1
    /\ UNCHANGED <<motionVars, pageVars, renderVars, coordVars, workerVars, rendered,
                   sentLog, acked, execRet, failedFrame, downloads,
                   exportsStarted, settleLog>>

\* worker.onmessage for a LOG or PROGRESS message, or for a message whose id
\* has no entry.
OnNote ==
    /\ fromWorker # <<>>
    /\ ~IsReply
    /\ fromWorker' = Tail(fromWorker)
    /\ progressText' = IF Reply.type = "PROGRESS" /\ progressCb
                       THEN <<"Encoding video...", Reply.data>>
                       ELSE progressText
    /\ UNCHANGED <<fixedVars, session, allocated, isExporting, btnDisabled, pc, exportSize, fps, duration,
                   totalFrames, i, frameData, promise, outcome, nextId, pending,
                   progressCb, toWorker, workerLoaded, files, liveWorkers, faults,
                   histVars>>

\* line 51 resumes: await ffmpeg.load() settles; lines 56-68.
OnLoadReply ==
    /\ pc = "load"
    /\ IsReply
    /\ Settle
    /\ fromWorker' = Tail(fromWorker)
    /\ IF IsError(Reply)
       THEN /\ Throw(WorkerError)
            /\ pending' = pending \ {Reply.id}
            /\ UNCHANGED <<session, allocated, i, frameData, rendered, nextId, toWorker,
                           sentLog, progressCb>>
       ELSE /\ progressText' = <<"Rendering frames...", 0>>
            /\ \E pw \in PreviewWidths :
                  LoopHead(0, initExport(settings, exportSize[1], exportSize[2],
                                         pw, allocated),
                           allocated + 2, {Reply.id})
            /\ UNCHANGED <<isExporting, btnDisabled, promise, outcome>>
    /\ UNCHANGED <<fixedVars, exportSize, fps, duration, totalFrames,
                   workerLoaded, files, liveWorkers, faults, acked, execRet,
                   failedFrame, downloads, ignoredClicks, exportsStarted>>

\* line 68 resumes: canvas.toBlob calls back, with a blob or with null; with
\* null, blob.arrayBuffer() on line 69 throws.
OnBlob ==
    /\ pc = "blob"
    /\ \E blob \in BOOLEAN :
          IF blob
          THEN /\ pc' = "buf"
               /\ UNCHANGED <<progressText, isExporting, btnDisabled, promise, outcome,
                              failedFrame>>
          ELSE /\ Throw(BlobError)
               /\ failedFrame' = <<i>>
    /\ UNCHANGED <<fixedVars, session, allocated, exportSize, fps, duration, totalFrames, i,
                   frameData, workerVars, rendered, sentLog, acked, execRet,
                   downloads, ignoredClicks, exportsStarted, settleLog>>

\* line 69 resumes: blob.arrayBuffer() settles; lines 69-72.
OnArrayBuffer ==
    /\ pc = "buf"
    /\ send("WRITE_FILE", FrameFile(i), frameData, {})
    /\ pc' = "write"
    /\ UNCHANGED <<fixedVars, session, allocated, isExporting, btnDisabled, exportSize, fps, duration,
                   totalFrames, i, frameData, progressText, promise, outcome,
                   progressCb, fromWorker, workerLoaded, files, liveWorkers, faults,
                   rendered, acked, execRet, failedFrame, downloads,
                   ignoredClicks, exportsStarted, settleLog>>

\* line 72 resumes: await ffmpeg.writeFile() settles; lines 74, 64-68, 77-97.
OnWriteReply ==
    /\ pc = "write"
    /\ IsReply
    /\ Settle
    /\ fromWorker' = Tail(fromWorker)
    /\ failedFrame' = IF Reply.type = "ERROR" THEN <<i>> ELSE failedFrame
    /\ acked' = IF Reply.type = "ERROR" THEN acked ELSE acked \cup {i}
    /\ IF IsError(Reply)
       THEN /\ Throw(WorkerError)
            /\ pending' = pending \ {Reply.id}
            /\ UNCHANGED <<session, allocated, i, frameData, rendered, nextId, toWorker,
                           sentLog, progressCb>>
       ELSE /\ progressText' = <<"Rendering frame", i + 1>>
            /\ LoopHead(NextIndex(i), session, allocated, {Reply.id})
            /\ UNCHANGED <<isExporting, btnDisabled, promise, outcome>>
    /\ UNCHANGED <<fixedVars, exportSize, fps, duration, totalFrames,
                   workerLoaded, files, liveWorkers, faults, execRet, downloads,
                   ignoredClicks, exportsStarted>>

\* line 84 resumes: await ffmpeg.exec() settles; lines 99-103.
OnExecReply ==
    /\ pc = "exec"
    /\ IsReply
    /\ Settle
    /\ fromWorker' = Tail(fromWorker)
    /\ IF IsError(Reply)
       THEN /\ Throw(WorkerError)
            /\ pending' = pending \ {Reply.id}
            /\ UNCHANGED <<execRet, nextId, toWorker, sentLog>>
       ELSE /\ execRet' = <<Reply.data>>
            /\ IF ExitFailed(Reply.data)
               THEN /\ Throw(<<"Export failed: ffmpeg exited with code", Reply.data>>)
                    /\ pending' = pending \ {Reply.id}
                    /\ UNCHANGED <<nextId, toWorker, sentLog>>
               ELSE /\ send("READ_FILE", OutputFile, NoData, {Reply.id})
                    /\ pc' = "read"
                    /\ UNCHANGED <<progressText, isExporting, btnDisabled, promise, outcome>>
    /\ UNCHANGED <<fixedVars, session, allocated, exportSize, fps, duration, totalFrames, i,
                   frameData, progressCb, workerLoaded, files, liveWorkers, faults,
                   rendered, acked, failedFrame, downloads, ignoredClicks,
                   exportsStarted>>

\* line 103 resumes: await ffmpeg.readFile() settles; lines 104-117.
OnReadReply ==
    /\ pc = "read"
    /\ IsReply
    /\ Settle
    /\ fromWorker' = Tail(fromWorker)
    /\ IF IsError(Reply)
       THEN /\ Throw(WorkerError)
            /\ pending' = pending \ {Reply.id}
            /\ UNCHANGED <<i, downloads, nextId, toWorker, sentLog>>
       ELSE /\ downloads' = downloads + 1
            /\ DeleteHead(0, {Reply.id})
            /\ UNCHANGED <<progressText, isExporting, btnDisabled, promise, outcome>>
    /\ UNCHANGED <<fixedVars, session, allocated, exportSize, fps, duration, totalFrames,
                   frameData, progressCb, workerLoaded, files, liveWorkers, faults,
                   rendered, acked, execRet, failedFrame, ignoredClicks,
                   exportsStarted>>

\* line 117 resumes: a deleteFile of a frame settles (a rejection is
\* swallowed); lines 115-119.
OnDeleteReply ==
    /\ pc = "del"
    /\ IsReply
    /\ Settle
    /\ fromWorker' = Tail(fromWorker)
    /\ DeleteHead(i + 1, {Reply.id})
    /\ UNCHANGED <<fixedVars, session, allocated, isExporting, btnDisabled, exportSize, fps, duration,
                   totalFrames, frameData, progressText, promise, outcome,
                   progressCb, workerLoaded, files, liveWorkers, faults, rendered,
                   acked, execRet, failedFrame, downloads, ignoredClicks,
                   exportsStarted>>

\* line 119 resumes: the deleteFile of output.mp4 settles (a rejection is
\* swallowed); lines 121-122 and the finally block.
OnDeleteOutputReply ==
    /\ pc = "delout"
    /\ IsReply
    /\ Settle
    /\ pending' = pending \ {Reply.id}
    \* ffmpeg.terminate()
    /\ liveWorkers' = liveWorkers - 1
    /\ toWorker' = <<>>
    /\ fromWorker' = <<>>
    /\ progressText' = <<"Export complete!", 0>>
    /\ isExporting' = FALSE
    /\ btnDisabled' = FALSE
    /\ pc' = "idle"
    /\ promise' = "fulfilled"
    /\ outcome' = "complete"
    /\ UNCHANGED <<fixedVars, session, allocated, exportSize, fps, duration, totalFrames, i,
                   frameData, nextId, progressCb, workerLoaded, files, faults, rendered, sentLog, acked,
                   execRet, failedFrame, downloads, ignoredClicks, exportsStarted>>

(***************************************************************************)
(* Spec: exports started from the page as loaded.                          *)
(***************************************************************************)
ExportSettings ==
    { updateSettings(DefaultSettings,
          [layerCount |-> 2,
           layerCycles |-> SetAt(DefaultSettings.layerCycles, 0, c)]) :
        c \in 1..MaxCycles }

Init ==
    /\ fpsField \in 1..MaxFps
    /\ durationField \in 1..MaxDuration
    /\ resolutionField = <<1920, 1080>>
    /\ \E s \in ExportSettings : settings = syncLoopDuration(s, durationField)
    /\ InitMotionIdle
    /\ InitRendererIdle
    /\ InitCoordinator
    /\ InitPageIdle

Next ==
    \/ ClickStart
    \/ ClickIgnored
    \/ WorkerHandle
    \/ OnNote
    \/ OnLoadReply
    \/ OnBlob
    \/ OnArrayBuffer
    \/ OnWriteReply
    \/ OnExecReply
    \/ OnReadReply
    \/ OnDeleteReply
    \/ OnDeleteOutputReply

Spec == Init /\ [][Next]_vars

(***************************************************************************)
(* SpecDuration: the #duration field is typed into and left, and the       *)
(* export button is clicked.                                               *)
(***************************************************************************)
MaxTyped == 30

\* The #duration field when it is empty: parseInt gives NaN.
EmptyField == -1

\* What the field can hold once the input handler has dropped every
\* character that is no digit.
DurationTexts == {EmptyField} \cup 0..MaxTyped \cup {120, 121}

exportVars == <<isExporting, btnDisabled, pc, exportSize, fps, duration, totalFrames,
                i, frameData, progressText, promise, outcome>>

InitDuration == InitSettings /\ settings = syncLoopDuration(settings, durationField)

\* lines 835-838: the input event of the #duration field.
DurationInput ==
    /\ \E text \in DurationTexts :
          /\ durationField' = text
          /\ settings' = syncLoopDuration(settings, text)
    /\ UNCHANGED <<motionVars, pageVars, surface, frames, session, allocated,
                   exportVars, fpsField, resolutionField, workerVars, histVars>>

\* lines 840-845: the blur event of the #duration field.
DurationBlur ==
    /\ LET sec == IF durationField >= 1
                  THEN (IF durationField < 120 THEN durationField ELSE 120)
                  ELSE 10
       IN  /\ durationField' = sec
           /\ settings' = syncLoopDuration(settings, sec)
    /\ UNCHANGED <<motionVars, pageVars, surface, frames, session, allocated,
                   exportVars, fpsField, resolutionField, workerVars, histVars>>

NextDuration == DurationInput \/ DurationBlur \/ ClickStart

SpecDuration == InitDuration /\ [][NextDuration]_vars

(***************************************************************************)
(* SpecExportEdits: exports during which the control panel is used: the    *)
(* panel is not disabled while startExport waits.                          *)
(***************************************************************************)
MaxMidEdits == 1

BlurValues == {80, 160}

InitExportEdits ==
    /\ fpsField \in 1..MaxFps
    /\ durationField = 1
    /\ resolutionField = <<1920, 1080>>
    /\ settings = syncLoopDuration(DefaultSettings, durationField)
    /\ InitMotionIdle
    /\ InitRendererIdle
    /\ InitCoordinator
    /\ InitPageIdle

\* bindRange('blur', 'blur'): the input event of the blur slider.
BlurInput ==
    /\ edits < MaxMidEdits
    /\ edits' = edits + 1
    /\ \E val \in BlurValues : settings' = updateSettings(settings, [blur |-> val])
    /\ UNCHANGED <<motionVars, ctx, drawArgs, blobLog, startTime, lastUpdate, domLayers,
                   surface, frames, session, allocated, coordVars, workerVars, histVars>>

EditLayerCount == edits < MaxMidEdits /\ LayerCountInput

EditColor == edits < MaxMidEdits /\ ColorInput

NextExportEdits ==
    \/ Next
    \/ LoadPanel
    \/ BlurInput
    \/ EditLayerCount
    \/ EditColor

SpecExportEdits == InitExportEdits /\ [][NextExportEdits]_vars

\* The steps that need no user: the worker handles the request at the head of
\* its queue, the page handles the message at the head of its queue, and the
\* pending toBlob / arrayBuffer callbacks run.
Progress ==
    \/ WorkerHandle
    \/ OnNote
    \/ OnLoadReply
    \/ OnBlob
    \/ OnArrayBuffer
    \/ OnWriteReply
    \/ OnExecReply
    \/ OnReadReply
    \/ OnDeleteReply
    \/ OnDeleteOutputReply

\* ENABLED <<Progress>>_vars, written out from the guards of its actions: a
\* request is queued at the worker, a message is queued at the page (a note,
\* or the reply the suspended startExport awaits), or a toBlob / arrayBuffer
\* callback is due.
CanProgress ==
    \/ toWorker # <<>>
    \/ fromWorker # <<>> /\ ~IsReply
    \/ IsReply /\ pc \in {"load", "write", "exec", "read", "del", "delout"}
    \/ pc \in {"blob", "buf"}

\* The page as loaded, with the settings of the constructor.
InitPage ==
    /\ fpsField = 1
    /\ durationField \in 1..MaxDuration
    /\ resolutionField = <<1920, 1080>>
    /\ settings = syncLoopDuration(DefaultSettings, durationField)
    /\ InitMotionIdle
    /\ InitRendererIdle
    /\ InitCoordinator
    /\ InitPageIdle

\* The same program, where the worker answers every request and the event
\* loop runs every task that is ready: weak fairness of Progress, that is
\* WF_vars(Progress) with its ENABLED written as CanProgress.
FairSpec ==
    InitPage /\ [][Next]_vars /\ ([]<>~CanProgress \/ []<><<Progress>>_vars)

(***************************************************************************)
(* Claims on the motion model and the frame renderer.                      *)
(***************************************************************************)
\* C3 (loop identity): renderFrame at time 0 and at time loopDuration compute
\* the same center (cx, cy) and the same radius for every layer.
LoopIdentity ==
    Len(frames) = 2 =>
        \A n \in 1..settings.layerCount :
            LET a == frames[1].frame.layers[n].draw
                b == frames[2].frame.layers[n].draw
            IN  a.cx = b.cx /\ a.cy = b.cy /\ a.blobRadius = b.blobRadius

\* C4 (periodicity): getMotionOffset(kind, p, orbit, range) equals
\* getMotionOffset(kind, p + 1, orbit, range) in offsetX and in offsetY.
Periodicity ==
    Len(motionRes) = 2 =>
        /\ motionRes[1].offsetX = motionRes[2].offsetX
        /\ motionRes[1].offsetY = motionRes[2].offsetY

\* C20 (drift range): for the drift motion, every phase >= 0, every orbit
\* slot and every range r > 0, the horizontal offset lies in [-r, r).
DriftRange ==
    \A n \in DOMAIN motionRes :
        motionArgs.type = "drift" =>
            /\ ~RLess(motionRes[n].offsetX.q, Rat(-motionArgs.range, 1))
            /\ RLess(motionRes[n].offsetX.q, Rat(motionArgs.range, 1))

(***************************************************************************)
(* Claims on the export coordinator.                                       *)
(***************************************************************************)
Writes == SelectSeq(sentLog, LAMBDA m : m.type = "WRITE_FILE")
SentTypes == {sentLog[n].type : n \in DOMAIN sentLog}
Deleted == {sentLog[n].path : n \in {m \in DOMAIN sentLog :
                                         sentLog[m].type = "DELETE_FILE"}}

\* C1 (frame count and order): the n-th frame submitted is frame k = n - 1,
\* drawn by the n-th render at time 1000*k/fps; frames are submitted once each
\* and in increasing order; a completed export has rendered and submitted
\* exactly fps*duration frames.
FrameSequence ==
    /\ \A n \in DOMAIN rendered :
          /\ rendered[n].k = n - 1
          /\ rendered[n].time = Rat(1000 * (n - 1), fps)
    /\ \A n \in DOMAIN Writes :
          /\ Writes[n].path = FrameFile(n - 1)
          /\ Writes[n].data = n
    /\ Len(Writes) <= Len(rendered)
    /\ outcome = "complete" =>
          /\ Len(rendered) = fps * duration
          /\ Len(Writes) = fps * duration

FrameSequenceWitness ==
    outcome = "complete" /\ fps * duration = 4 /\ Len(Writes) = 4

\* C2 (one submission at a time): at most one writeFile request is
\* outstanding, and frame k + 1 is neither rendered nor submitted before the
\* acknowledgement of frame k has been received.
OneSubmissionAtATime ==
    /\ Cardinality({n \in DOMAIN sentLog :
                       sentLog[n].type = "WRITE_FILE" /\ sentLog[n].id \in pending})
          <= 1
    /\ \A n \in DOMAIN rendered :
          rendered[n].k > 0 => (rendered[n].k - 1) \in acked
    /\ \A n \in DOMAIN Writes :
          Writes[n].path[2] > 0 => (Writes[n].path[2] - 1) \in acked

OneSubmissionAtATimeWitness ==
    /\ pc = "write"
    /\ Len(Writes) = 3
    /\ Writes[3].id \in pending
    /\ acked = {0, 1}

FirstPhase(n) == rendered[1].out.frame.layers[n].t
LastPhase(n) == rendered[Len(rendered)].out.frame.layers[n].t

\* C5 as stated: in a completed export the first and the last submitted frame
\* have, for every layer, phases that differ by an integer.
FirstAndLastFrameIdentical ==
    outcome = "complete" =>
        \A n \in 1..settings.layerCount :
            RIsInt(RSub(LastPhase(n), FirstPhase(n)))

\* C5 as amended: in a completed export whose duration is the loop duration,
\* the frame that would follow the last submitted one (index fps*duration, at
\* time 1000*duration) has, for every layer, the phase of frame 0 plus the
\* integer cycles of that layer; the last submitted frame is one frame short
\* of it, at cycles*(fps*duration - 1)/(fps*duration) past frame 0.
LoopClosesAfterLastFrame ==
    (outcome = "complete" /\ settings.loopDuration = 1000 * duration) =>
        \A n \in 1..settings.layerCount :
            LET total == fps * duration
                wrap == LayerPhase(settings, n - 1, FrameTime(total, fps))
                cycles == settings.layerCycles[n]
            IN  /\ RSub(wrap, FirstPhase(n)) = Rat(cycles, 1)
                /\ RSub(LastPhase(n), FirstPhase(n)) =
                       Rat(cycles * (total - 1), total)

LoopClosesAfterLastFrameWitness ==
    /\ outcome = "complete"
    /\ settings.loopDuration = 1000 * duration
    /\ fps * duration = 4
    /\ Len(rendered) = 4
    /\ ~RIsInt(RSub(LastPhase(1), FirstPhase(1)))

\* C6 (one export in flight): while an export is active no export starts and
\* no worker is created, and a click on the export button changes neither
\* isExporting nor the session, the frames rendered, the requests sent or the
\* position of the running export.
SingleExportInFlight ==
    [][isExporting =>
          /\ exportsStarted' = exportsStarted
          /\ liveWorkers' <= liveWorkers
          /\ ignoredClicks' # ignoredClicks =>
                UNCHANGED <<isExporting, btnDisabled, session, allocated, rendered, sentLog, liveWorkers,
                            pc, nextId, pending, toWorker, fromWorker>>]_vars

SingleExportInFlightWitness ==
    isExporting /\ ignoredClicks > 0 /\ pc = "write" /\ Len(rendered) = 2

\* C7 (encoder failure code): once exec has returned a non-zero code c, the
\* output file is not read, nothing is downloaded, the text shown carries c,
\* and the call has ended with its promise fulfilled.
ExitCodeFailureContained ==
    (execRet # <<>> /\ execRet[1] # 0) =>
        /\ "READ_FILE" \notin SentTypes
        /\ downloads = 0
        /\ progressText = <<"Export failed: ffmpeg exited with code", execRet[1]>>
        /\ promise = "fulfilled"
        /\ outcome = "failed"
        /\ ~isExporting
        /\ pc = "idle"

ExitCodeFailureContainedWitness ==
    execRet = <<2>> /\ outcome = "failed"

\* C8 (cleanup on failure): when an export has failed on a frame submission
\* or on the encode command, deletion has been requested for every frame file
\* written and for the output file, and the worker has been terminated.
CleanupOnFailure ==
    (outcome = "failed" /\ (failedFrame # <<>> \/ "EXEC" \in SentTypes)) =>
        /\ \A n \in DOMAIN Writes :
              Writes[n].path[2] \in acked => Writes[n].path \in Deleted
        /\ OutputFile \in Deleted
        /\ liveWorkers = 0

\* C21 (order of the steps of an export): the exec request is sent only after
\* all fps*duration frame submissions were acknowledged and the session was
\* released; output.mp4 is read only after exec returned 0; the download is
\* triggered at most once, after the read; files are deleted and the worker
\* is terminated only after the output was read.
StepOrderState ==
    /\ "EXEC" \in SentTypes =>
          /\ Len(Writes) = fps * duration
          /\ acked = 0..(fps * duration - 1)
          /\ session = NoSession
    /\ "READ_FILE" \in SentTypes => execRet = <<0>>
    /\ downloads <= 1
    /\ downloads = 1 => /\ "READ_FILE" \in SentTypes
                        /\ pc \in {"del", "delout", "idle"}
    /\ "DELETE_FILE" \in SentTypes => downloads = 1
    /\ outcome = "complete" => downloads = 1

StepOrder ==
    /\ []StepOrderState
    /\ [][liveWorkers' < liveWorkers => (downloads = 1 /\ pc = "delout")]_vars

StepOrderWitness ==
    /\ exportsStarted = 2
    /\ outcome = "complete"
    /\ fps * duration = 4
    /\ downloads = 1
    /\ Len(sentLog) = 12

SentIds == {sentLog[n].id : n \in DOMAIN sentLog}
SettledIds == {settleLog[n].id : n \in DOMAIN settleLog}

\* C22 (worker wrapper): the n-th request of a worker is sent with id n - 1,
\* used by no request before; a promise is settled at most once, by a reply
\* that carries its id and is no LOG or PROGRESS message, rejected by an ERROR
\* reply and resolved with the reply's data otherwise; the pending tables
\* hold exactly the ids sent and not yet settled, and none once the export
\* has ended.
WrapperSettlesOnce ==
    /\ \A n \in DOMAIN sentLog : sentLog[n].id = n - 1
    /\ \A a, b \in DOMAIN settleLog :
          a # b => settleLog[a].id # settleLog[b].id
    /\ \A n \in DOMAIN settleLog :
          LET e == settleLog[n]
          IN  /\ e.id \in SentIds
              /\ e.msg.id = e.id
              /\ e.msg.type \notin {"LOG", "PROGRESS"}
              /\ e.how = "rejected" <=> e.msg.type = "ERROR"
              /\ e.how = "resolved" =>
                    /\ e.data = e.msg.data
                    /\ e.msg.type = sentLog[e.id + 1].type
    /\ pending = SentIds \ SettledIds
    /\ ~isExporting => pending = {}

WrapperSettlesOnceWitness ==
    /\ outcome = "complete"
    /\ Len(sentLog) = 8
    /\ Len(settleLog) = 8
    /\ settleLog[4].how = "resolved"
    /\ settleLog[4].msg.type = "EXEC"
    /\ settleLog[6].how = "rejected"
    /\ settleLog[6].msg.type = "ERROR"
    /\ pending = {}

\* C24 (export duration is the loop): whenever an export starts, the duration
\* it reads is a whole number of seconds in 1..120 and duration * 1000 is
\* settings.loopDuration.
ExportDurationIsLoop ==
    [][(~isExporting /\ isExporting') =>
          (/\ duration' \in 1..120
           /\ duration' * 1000 = settings'.loopDuration)]_vars

\* C23 (one export, one settings value): every frame of an export is rendered
\* from the settings frame 0 was rendered from, and while the export session
\* exists its blur size and padding are those the current blur setting gives.
FramesFromSameSettings ==
    /\ \A n \in DOMAIN rendered : rendered[n].settings = rendered[1].settings
    /\ session # NoSession =>
          \E pw \in PreviewWidths :
              LET now == initExport(settings, exportSize[1], exportSize[2], pw, 0)
              IN  session.blurPx = now.blurPx /\ session.pad = now.pad

\* C18 (export surfaces reused): every renderExportFrame call of an export
\* leaves the export session as initExport made it, makes no canvas, and
\* returns the session's output canvas, the same one on every frame.
ExportSurfacesFixed ==
    \A n \in DOMAIN rendered :
        LET e == rendered[n]
        IN  /\ e.out.session = e.ses
            /\ e.ses = rendered[1].ses
            /\ session # NoSession => session = e.ses
            /\ e.out.canvas = e.ses.outCanvas
            /\ e.out.canvas = rendered[1].out.canvas
            /\ e.out.allocated = e.ses.outCanvas.id
            /\ allocated = e.out.allocated

ExportSurfacesFixedWitness ==
    /\ exportsStarted = 2
    /\ Len(rendered) = 4
    /\ session # NoSession
    /\ rendered[4].out.canvas.id = 4
    /\ rendered[4].out.session.srcCanvas.id = 3
    /\ allocated = 4

\* C9 (session lifetime): the export session exists only while the frame loop
\* runs, and is null whenever no export is active.
SessionOnlyDuringLoop ==
    /\ session # NoSession => pc \in {"blob", "buf", "write"}
    /\ ~isExporting => session = NoSession

\* C10 (abort on a failed submission): once the submission of frame k has
\* failed, no frame after k has been rendered or submitted, frame k was
\* rendered and submitted at most once, no encode command was sent, and the
\* export has ended as failed.
AbortOnFailedSubmission ==
    failedFrame # <<>> =>
        LET k == failedFrame[1]
        IN  /\ \A n \in DOMAIN rendered : rendered[n].k <= k
            /\ \A n \in DOMAIN Writes : Writes[n].path[2] <= k
            /\ Cardinality({n \in DOMAIN rendered : rendered[n].k = k}) = 1
            /\ Cardinality({n \in DOMAIN Writes : Writes[n].path[2] = k}) <= 1
            /\ "EXEC" \notin SentTypes
            /\ outcome = "failed"
            /\ pc = "idle"

AbortOnFailedSubmissionWitness ==
    /\ failedFrame = <<1>>
    /\ Len(Writes) = 2
    /\ totalFrames = 4
    /\ outcome = "failed"

CountCalls(c, name) ==
    Cardinality({n \in DOMAIN c.calls : c.calls[n].op = name})

\* C12 (fallback): drawShape with a kind outside circle, ellipse, ring, blob
\* makes on the context exactly the calls of drawCircle with the same
\* arguments, and getMotionOffset with a kind outside the five known ones
\* returns the offset of motionLissajous for the same phase, orbit and range.
Fallback ==
    /\ (drawArgs.call = "drawShape" /\ drawArgs.type \notin SHAPE_TYPES) =>
          /\ ctx = drawCircle(drawArgs.entry, drawArgs.cx, drawArgs.cy,
                              drawArgs.blobRadius, drawArgs.color, drawArgs.opacity)
          /\ CountCalls(ctx, "paint") = 1
    /\ (Len(motionRes) = 1 /\ motionArgs.type \notin MOTION_TYPES) =>
          motionRes[1] = motionLissajous(motionArgs.t,
                                         LAYER_ORBITS[motionArgs.slot + 1],
                                         motionArgs.range)

FallbackWitness ==
    /\ drawArgs.call = "drawShape"
    /\ drawArgs.type = "unknown"
    /\ Len(ctx.calls) = 5
    /\ Len(motionRes) = 1
    /\ motionArgs.type = "unknown"

SettingsMerge ==
    /\ DOMAIN DefaultSettings \subseteq DOMAIN settings
    /\ lastUpdate # <<>> =>
          LET u == lastUpdate[1]
          IN  /\ \A k \in DOMAIN u.partial :
                    k \in DOMAIN u.after /\ u.after[k] = u.partial[k]
              /\ \A k \in DOMAIN u.before \ DOMAIN u.partial :
                    k \in DOMAIN u.after /\ u.after[k] = u.before[k]
              /\ settings = u.after

SettingsMergeWitness ==
    /\ lastUpdate # <<>>
    /\ DOMAIN lastUpdate[1].partial = {"layerCount", "blendMode"}
    /\ lastUpdate[1].before.bgColor = "#ffffff"
    /\ lastUpdate[1].before.layerCycles = <<2, 2, 2>>
    /\ "speed" \in DOMAIN lastUpdate[1].before
    /\ settings.bgColor = "#ffffff"
    /\ settings.layerCount = 2

\* The settings with every per-layer entry below layerCount that is absent
\* replaced by its documented default.
Padded(s) ==
    [s EXCEPT
        !.layerColors = [n \in 1..s.layerCount |->
            At(@, n - 1, DEFAULT_LAYER_COLORS[((n - 1) % 6) + 1])],
        !.layerShapes = [n \in 1..s.layerCount |-> At(@, n - 1, "circle")],
        !.layerMotions = [n \in 1..s.layerCount |-> At(@, n - 1, "lissajous")],
        !.layerCycles = [n \in 1..s.layerCount |-> At(@, n - 1, 1)],
        !.layerMotionRanges = [n \in 1..s.layerCount |-> At(@, n - 1, 250)],
        !.layerOpacities = [n \in 1..s.layerCount |-> At(@, n - 1, Rat(75, 100))],
        !.layerScaleRanges = [n \in 1..s.layerCount |-> At(@, n - 1, Rat(14, 10))]]

\* C17 (per-layer defaults): as long as the settings were changed through the
\* panel only, every per-layer array has an entry at every index below
\* layerCount; and every frame renderFrame draws is the frame of the settings
\* with the absent entries replaced by the default color, circle, lissajous,
\* 1 cycle, range 250, opacity 0.75 and scale 1.4.
PerLayerDefaults ==
    /\ lastUpdate = <<>> =>
          \A key \in LayerKeys : \A n \in 1..settings.layerCount :
              n \in DOMAIN settings[key]
    /\ \A n \in DOMAIN frames :
          /\ Len(frames[n].frame.layers) = frames[n].settings.layerCount
          /\ frames[n].frame =
                renderFrame(Padded(frames[n].settings), Rat(frames[n].time, 1),
                            frames[n].w, frames[n].h)

PerLayerDefaultsWitness ==
    /\ Len(frames) = 2
    /\ frames[1].settings.layerCount = MaxLayers
    /\ DOMAIN frames[1].settings.layerCycles = 1..MaxLayers
    /\ frames[1].settings.layerCycles[MaxLayers] = 1
    /\ frames[2].settings.layerCount = MaxLayers
    /\ frames[2].settings.layerOpacities = <<>>
    /\ frames[2].settings.layerShapes = <<>>

\* C19 (surface state kept): after drawShape, for every shape kind, the save
\* stack, the global alpha and the transform of the context are those at
\* entry, and the call made as many restores as saves, exactly one of each;
\* after renderFrame, for any layerCount including 0, the composite mode is
\* source-over.
SurfaceStateKept ==
    /\ drawArgs.call = "drawShape" =>
          /\ ctx.stack = drawArgs.entry.stack
          /\ ctx.globalAlpha = drawArgs.entry.globalAlpha
          /\ ctx.transform = drawArgs.entry.transform
          /\ CountCalls(ctx, "save") = 1
          /\ CountCalls(ctx, "restore") = 1
    /\ drawArgs.call = "renderFrame" =>
          /\ ctx.composite = "source-over"
          /\ ctx.stack = drawArgs.entry.stack
          /\ CountCalls(ctx, "save") = settings.layerCount
          /\ CountCalls(ctx, "restore") = settings.layerCount

SurfaceStateKeptWitness ==
    /\ drawArgs.call = "drawShape"
    /\ drawArgs.type = "ellipse"
    /\ drawArgs.entry.transform # <<>>
    /\ CountCalls(ctx, "scale") = 1
    /\ ctx.transform = drawArgs.entry.transform

BlobPointCount ==
    \A a \in DOMAIN blobLog :
        LET e == blobLog[a]
        IN  /\ \A n \in DOMAIN e.states :
                  /\ e.states[n] # 0
                  /\ e.states[n] - 1 >= 0
                  /\ e.states[n] - 1 < RngMod - 1
            /\ e.states[1] = rngNext(e.i * SeedMul + SeedAdd)
            /\ e.pointCount = 5 + FloorTimes4(e.states[1] - 1)
            /\ e.pointCount \in 5..8
            /\ Len(e.points) = e.pointCount
            /\ \A j \in DOMAIN e.points :
                  /\ e.points[j].radius = e.states[j + 1] - 1
                  /\ e.points[j].radius >= 0
                  /\ e.points[j].radius < RngMod - 1

BlobPointCountWitness ==
    \E a \in DOMAIN blobLog :
        /\ blobLog[a].i = 5
        /\ blobLog[a].pointCount = 6
        /\ Len(blobLog[a].points) = 6

\* C11 (termination): under FairSpec every started export ends, completed or
\* failed: isExporting returns to false with the export button enabled and
\* startExport no longer suspended, so that the guard of line 29 lets the
\* next click start an export.
ExportEventuallyEnds ==
    isExporting ~> (/\ ~isExporting
                    /\ ~btnDisabled
                    /\ pc = "idle"
                    /\ outcome \in {"complete", "failed"}
                    /\ ~Reentrant)

ExportEventuallyEndsWitness ==
    /\ exportsStarted = 2
    /\ isExporting
    /\ pc = "write"
    /\ outcome = "running"

====
